---- MODULE Spec2Model ----
(***************************************************************************)
(* A model of execjs/_external_runtime.py: the external-process runtime of *)
(* PyExecJS (ExternalRuntime and its Context).                             *)
(*                                                                         *)
(* Text is modelled as a sequence of tokens.  A token is one character     *)
(* ("[", "]", ",", the double quote, a digit, "x", "\n", "\r", "LS" for    *)
(* U+2028) or one of the words "ok", "err", "null", which stand for their  *)
(* letters.  JSON values are pairs <<tag, payload>>: <<"str", chars>>,     *)
(* <<"num", digits>>, <<"arr", values>> and <<"null", <<>>>> (None).       *)
(***************************************************************************)
EXTENDS Integers, Sequences, FiniteSets, TLC

VARIABLES
    \* One evaluation of a one-shot process, from its first output to the
    \* return of _exec_ (SpecExtract)
    output,     \* what the process has written to its standard output
    errout,     \* what the process has written to its standard error
    exit,       \* the exit status p.wait() returned
    result,     \* how the call ended: a value returned or an exception raised
    phase,      \* "emit" while the process runs, "done" once the call has ended
    pieces      \* how many pieces of output the process has written

exVars == <<output, errout, exit, result, phase, pieces>>

VARIABLES
    \* One ExternalRuntime, its contexts, its sessions and two callers (Spec)
    binary_cache,   \* ExternalRuntime._binary_cache: "None" or "path"
    available,      \* ExternalRuntime._available
    rt_tempfile,    \* ExternalRuntime._tempfile
    rt_session,     \* ExternalRuntime._session: NoSession or a session handle
    ctxs,           \* the Context objects compiled so far
    sess,           \* the session handles pyexpect.spawn has returned
    pc,             \* where each caller is: "idle", "prompt" (line 60), "await" (line 114)
    waiting,        \* the session and statement of a caller that is waiting
    last,           \* the call that ended last and how it ended
    files,          \* the temporary files that exist
    nTmp,           \* how many temporary files mkstemp has created
    nPopen,         \* how many processes Popen has started
    spawnArgs,      \* the commands handed to Popen or pyexpect.spawn so far
    nStmt,          \* how many statements were handed to sendline
    nCalls          \* how many session() calls and evaluations were begun

rtVars ==
    <<binary_cache, available, rt_tempfile, rt_session, ctxs, sess, pc, waiting,
      last, files, nTmp, nPopen, spawnArgs, nStmt, nCalls>>

VARIABLES
    \* The executable search of one ExternalRuntime (SpecWhich)
    platform,       \* platform.system(): "Windows" or "Linux"
    environ,        \* os.environ: PATH and PATHEXT, each already split at os.pathsep
    fs,             \* the filesystem: what os.stat finds at each candidate file name
    command,        \* ExternalRuntime._command: the name and the fixed arguments
    nSearch,        \* how many times _which has searched the filesystem
    probe           \* the call that returned last, and what it returned

whVars == <<platform, environ, fs, command, nSearch, probe>>

VARIABLES
    \* The program text of the evaluations through one Context (SpecTemplate,
    \* SpecDeliver)
    template,       \* ExternalRuntime._runner_source
    snippet,        \* the source handed to exec_
    ctx,            \* the Context: _source, _cwd, _tempfile, _session
    engine,         \* _binary()[0], the path of the executable, as its components
    given,          \* the source _exec_ handed to Context._compile
    program,        \* what Context._compile returned
    delivered,      \* the text written to the pipe, the file or the session
    dmode,          \* the delivery strategy the evaluation used
    nEval           \* how many evaluations the context has made

cpVars ==
    <<template, snippet, ctx, engine, given, program, delivered, dmode, nEval>>

vars == <<exVars, rtVars, whVars, cpVars>>

-----------------------------------------------------------------------------
(* Tokens and JSON values                                                  *)

DQ == "\""
LF == "\n"
CR == "\r"
LS == "LS"

Digits == {"1", "2", "3", "4"}

None == <<"null", <<>>>>

\* The letters a word token stands for.
Explode(t) ==
    CASE t = "ok"   -> <<"o", "k">>
      [] t = "err"  -> <<"e", "r", "r">>
      [] t = "null" -> <<"n", "u", "l", "l">>
      [] OTHER      -> <<t>>

RECURSIVE ExplodeAll(_)
ExplodeAll(s) ==
    IF s = <<>> THEN <<>> ELSE Explode(Head(s)) \o ExplodeAll(Tail(s))

-----------------------------------------------------------------------------
(* json.loads on one line                                                  *)

ParseFail == [ok |-> FALSE, val |-> None, next |-> 0]

\* The index of the first double quote at or after i, 0 if there is none.
RECURSIVE FindQuote(_, _)
FindQuote(s, i) ==
    IF i > Len(s) THEN 0
    ELSE IF s[i] = DQ THEN i
    ELSE FindQuote(s, i + 1)

\* The index after the run of digits starting at i.
RECURSIVE DigitsEnd(_, _)
DigitsEnd(s, i) ==
    IF i <= Len(s) /\ s[i] \in Digits THEN DigitsEnd(s, i + 1) ELSE i

RECURSIVE ParseValue(_, _)
RECURSIVE ParseElems(_, _, _)

\* One JSON value starting at s[i]: a string, a number, null or an array.
ParseValue(s, i) ==
    IF i > Len(s) THEN ParseFail
    ELSE IF s[i] = DQ THEN
        LET j == FindQuote(s, i + 1)
            body == SubSeq(s, i + 1, j - 1)
        IN  IF j = 0 \/ \E k \in 1..Len(body) : body[k] \in {LF, CR}
            THEN ParseFail
            ELSE [ok |-> TRUE, val |-> <<"str", ExplodeAll(body)>>, next |-> j + 1]
    ELSE IF s[i] \in Digits THEN
        LET e == DigitsEnd(s, i)
        IN  [ok |-> TRUE, val |-> <<"num", SubSeq(s, i, e - 1)>>, next |-> e]
    ELSE IF s[i] = "null" THEN [ok |-> TRUE, val |-> None, next |-> i + 1]
    ELSE IF s[i] = "[" THEN
        IF i + 1 <= Len(s) /\ s[i + 1] = "]"
        THEN [ok |-> TRUE, val |-> <<"arr", <<>>>>, next |-> i + 2]
        ELSE ParseElems(s, i + 1, <<>>)
    ELSE ParseFail

\* The elements of an array from s[i] on, acc being those already read.
ParseElems(s, i, acc) ==
    LET v == ParseValue(s, i)
    IN  IF ~v.ok \/ v.next > Len(s) THEN ParseFail
        ELSE IF s[v.next] = ","
        THEN ParseElems(s, v.next + 1, Append(acc, v.val))
        ELSE IF s[v.next] = "]"
        THEN [ok |-> TRUE, val |-> <<"arr", Append(acc, v.val)>>, next |-> v.next + 1]
        ELSE ParseFail

\* json.loads: the whole line must be one value.
json_loads(line) ==
    LET r == ParseValue(line, 1)
    IN  IF r.ok /\ r.next = Len(line) + 1
        THEN [ok |-> TRUE, val |-> r.val]
        ELSE [ok |-> FALSE, val |-> None]

-----------------------------------------------------------------------------
(* str.replace and str.splitlines                                          *)

\* output.replace("\r\n", "\n")
RECURSIVE ReplaceCRLF(_)
ReplaceCRLF(s) ==
    IF s = <<>> THEN <<>>
    ELSE IF Len(s) >= 2 /\ s[1] = CR /\ s[2] = LF
    THEN <<LF>> \o ReplaceCRLF(SubSeq(s, 3, Len(s)))
    ELSE <<s[1]>> \o ReplaceCRLF(Tail(s))

\* output.replace("\r", "\n")
ReplaceCR(s) == [i \in 1..Len(s) |-> IF s[i] = CR THEN LF ELSE s[i]]

\* The line boundaries of str.splitlines: "\n", "\r", "\r\n" and the other
\* Unicode line boundaries, of which U+2028 (LS) is in the alphabet.
IsLineBreak(t) == t \in {LF, CR, LS}

\* str.splitlines from s[i] on, cur being the line read so far; no empty
\* last line is produced.
RECURSIVE SplitFrom(_, _, _)
SplitFrom(s, i, cur) ==
    IF i > Len(s) THEN (IF cur = <<>> THEN <<>> ELSE <<cur>>)
    ELSE IF s[i] = CR /\ i < Len(s) /\ s[i + 1] = LF
    THEN <<cur>> \o SplitFrom(s, i + 2, <<>>)
    ELSE IF IsLineBreak(s[i])
    THEN <<cur>> \o SplitFrom(s, i + 1, <<>>)
    ELSE SplitFrom(s, i + 1, Append(cur, s[i]))

splitlines(s) == SplitFrom(s, 1, <<>>)

\* ']' in line
HasBracket(line) == \E i \in 1..Len(line) : line[i] = "]"

\* [line for line in lines if ']' in line]
BracketLines(lines) == SelectSeq(lines, HasBracket)

\* cands[-1], for a non-empty list
PickLine(cands) == cands[Len(cands)]

-----------------------------------------------------------------------------
(* ExternalRuntime.Context._extract_result                                 *)

Raise(kind) == [kind |-> kind, value |-> None]

\* len(ret) for a str or a list; ret[i] of a str is a one-character str.
PyLen(v) == Len(v[2])
PyItem(v, i) == IF v[1] = "arr" THEN v[2][i] ELSE <<"str", <<v[2][i]>>>>

\* status == "ok"
StatusIsOk(status) == status[1] = "str" /\ status[2] = <<"o", "k">>

\* Every status taken as ok: the else branch of line 195 lost.
ClassifyAlwaysOk(status, value) == [kind |-> "return", value |-> value]

\* Lines 193-196.
Classify(status, value) ==
    IF StatusIsOk(status)
    THEN [kind |-> "return", value |-> value]
    ELSE [kind |-> "ProgramError", value |-> value]

\* Lines 188-196 on the selected line.
DecodeLine(line) ==
    LET ret == json_loads(line)
    IN  IF ~ret.ok THEN Raise("JSONDecodeError")
        ELSE IF ret.val[1] \in {"num", "null"} THEN Raise("TypeError")
        ELSE IF PyLen(ret.val) = 1 THEN Classify(PyItem(ret.val, 1), None)
        ELSE IF PyLen(ret.val) = 2
        THEN Classify(PyItem(ret.val, 1), PyItem(ret.val, 2))
        ELSE Raise("ValueError")

_extract_result(out) ==
    LET cands == BracketLines(splitlines(ReplaceCR(ReplaceCRLF(out))))
    IN  IF Len(cands) = 0 THEN Raise("IndexError")
        ELSE DecodeLine(PickLine(cands))

-----------------------------------------------------------------------------
(* The end of a one-shot evaluation: _fail_on_non_zero_status, then the    *)
(* extractor                                                               *)

\* The exit statuses a process can end with: success, failure, killed by a
\* signal (Popen reports -N).
ExitStatuses == {0, 1, -9}

\* status != 0 written as status > 0: a process killed by a signal passes.
FailOnPositiveStatus(status) == status > 0

\* Line 161: whether _fail_on_non_zero_status raises.
_fail_on_non_zero_status(status) == status # 0

\* An outcome of a call: the value returned (kind "return") or the exception
\* raised, with what the exception carries; extracted tells whether
\* _extract_result was run.
Outcome(kind, value, extracted) ==
    [kind |-> kind, value |-> value, extracted |-> extracted,
     status |-> 0, stdout |-> <<>>, stderr |-> <<>>]

\* Line 162.
ProcessExitedWithNonZeroStatus(status, out, err) ==
    [kind |-> "ProcessExitedWithNonZeroStatus", value |-> None,
     extracted |-> FALSE, status |-> status, stdout |-> out, stderr |-> err]

\* Line 104 on the text a delivery strategy returned.
Extracted(out) ==
    LET r == _extract_result(out) IN Outcome(r.kind, r.value, TRUE)

\* Lines 137-138 (pipe) and 156-157 (tempfile), then line 104.
Finish(status, out, err) ==
    IF _fail_on_non_zero_status(status)
    THEN ProcessExitedWithNonZeroStatus(status, out, err)
    ELSE Extracted(out)

-----------------------------------------------------------------------------
(* The runtime's state                                                     *)

\* How many session() calls and evaluations are begun in all.
MaxCalls == 3

Callers == {1, 2}

NoSession == 0

NoResult == Outcome("none", None, FALSE)

\* Context's defaults (line 75): no tempfile, no session.
NoContext == [tempfile |-> FALSE, session |-> NoSession]

\* The record of a call that has ended: op is "session", "compile" or "exec";
\* ctx the context an exec went through;
\* mode the delivery strategy of an exec; out its outcome; popen and procs the
\* Popen calls it made and the processes they started; pid its process; tmp
\* its temporary file; sid and stmt its session and statement; text what it
\* handed to the extractor; dead whether its session had terminated when it
\* began; orderly whether every earlier evaluation on its session had waited
\* for its sentinel; clean whether, besides, the session held nothing of an
\* earlier statement when it began and one sentinel, its own, arrived for it.
NoLast ==
    [op |-> "none", mode |-> "none", out |-> NoResult, popen |-> 0,
     procs |-> 0, pid |-> 0, tmp |-> 0, sid |-> NoSession, stmt |-> 0,
     text |-> <<>>, dead |-> FALSE, orderly |-> FALSE, clean |-> FALSE,
     ctx |-> NoContext]

WaitOn(x, k, quiet) ==
    [ctx |-> x, sid |-> x.session, stmt |-> k, quiet |-> quiet]
NotWaiting == WaitOn(NoContext, 0, FALSE)

\* The state of the runtime's variables while SpecExtract runs one evaluation.
RtIdle ==
    /\ binary_cache = "path"
    /\ available = TRUE
    /\ rt_tempfile = FALSE
    /\ rt_session = NoSession
    /\ ctxs = {}
    /\ sess = <<>>
    /\ pc = [c \in Callers |-> "idle"]
    /\ waiting = [c \in Callers |-> NotWaiting]
    /\ last = NoLast
    /\ files = {}
    /\ nTmp = 0
    /\ nPopen = 0
    /\ spawnArgs = {}
    /\ nStmt = 0
    /\ nCalls = 0

\* The state of the one-shot variables while no evaluation is followed.
ExIdle ==
    /\ output = <<>>
    /\ errout = <<>>
    /\ exit = 0
    /\ result = NoResult
    /\ phase = "done"
    /\ pieces = 0

NoProbe == [op |-> "none", path |-> "None", avail |-> FALSE]

\* The state of the search variables while the search is not followed: the
\* runtime has been constructed and has searched once.
WhIdle ==
    /\ platform = "Linux"
    /\ environ = [PATH |-> <<"a">>, PATHEXT |-> <<"">>]
    /\ fs = <<>>
    /\ command = [name |-> "node", args |-> ""]
    /\ nSearch = 1
    /\ probe = NoProbe

\* The state of the program-text variables while no program text is followed.
CpIdle ==
    /\ template = <<>>
    /\ snippet = <<>>
    /\ ctx = [source |-> <<>>, cwd |-> "None", tempfile |-> FALSE, session |-> NoSession]
    /\ engine = <<>>
    /\ given = <<>>
    /\ program = <<>>
    /\ delivered = <<>>
    /\ dmode = "none"
    /\ nEval = 0

-----------------------------------------------------------------------------
(* SpecExtract: one evaluation whose process writes at most MaxChunks      *)
(* pieces of output and exits                                              *)

MaxChunks == 3

OkLine    == <<"[", DQ, "ok", DQ, ",", "1", "]">>
ErrLine   == <<"[", DQ, "err", DQ, ",", "2", "]">>
OneLine   == <<"[", DQ, "ok", DQ, "]">>
NumLine   == <<"[", "1", ",", "2", "]">>
LsLine    == <<"[", DQ, "ok", DQ, ",", DQ, "x", LS, "x", DQ, "]">>
StrLine   == <<DQ, "]", DQ>>
EmptyLine == <<"[", "]">>
ThreeLine == <<"[", "1", ",", "2", ",", "3", "]">>
Banner    == <<"x">>
Junk      == <<"x", "]">>

Chunks ==
    { OkLine, ErrLine, OneLine, NumLine, LsLine, StrLine, EmptyLine, ThreeLine,
      Banner, Junk, <<LF>>, <<CR>>, <<CR, LF>>, <<LS>> }

ExInit ==
    /\ output = <<>>
    /\ errout \in {<<>>, Banner}
    /\ exit = 0
    /\ result = NoResult
    /\ phase = "emit"
    /\ pieces = 0
    /\ RtIdle
    /\ WhIdle
    /\ CpIdle

\* The process writes one more piece of output.
Emit ==
    /\ phase = "emit"
    /\ pieces < MaxChunks
    /\ \E c \in Chunks : output' = output \o c
    /\ pieces' = pieces + 1
    /\ UNCHANGED <<errout, exit, result, phase, rtVars, whVars, cpVars>>

\* The process exits; communicate() and wait() return and the call ends.
Return ==
    /\ phase = "emit"
    /\ \E st \in ExitStatuses :
        /\ exit' = st
        /\ result' = Finish(st, output, errout)
    /\ phase' = "done"
    /\ UNCHANGED <<output, errout, pieces, rtVars, whVars, cpVars>>

ExNext == Emit \/ Return

SpecExtract == ExInit /\ [][ExNext]_vars

-----------------------------------------------------------------------------
(* One-shot delivery: _exec_with_pipe and _exec_with_tempfile              *)

\* What the host and the engine process decide during a one-shot call:
\* whether mkstemp, the write of the program and Popen succeed, and what the
\* process prints and exits with.
Stdouts == {OkLine, ErrLine}

Envs ==
    [mkOk : BOOLEAN, writeOk : BOOLEAN, spawnOk : BOOLEAN,
     status : ExitStatuses, sout : Stdouts, serr : {Banner}]

\* What a one-shot call did: its outcome, the Popen calls it made, the
\* processes they started, and whether it created and removed a temp file.
Shot(out, popen, procs, created, removed) ==
    [out |-> out, popen |-> popen, procs |-> procs,
     created |-> created, removed |-> removed]

Failed(kind) == Outcome(kind, None, FALSE)

\* A second Popen after a non-zero exit: the call retried once.
PipeWithRetry(cmd, env) ==
    IF cmd = "None" THEN Shot(Failed("TypeError"), 1, 0, FALSE, FALSE)
    ELSE IF ~env.spawnOk THEN Shot(Failed("OSError"), 1, 0, FALSE, FALSE)
    ELSE Shot(Finish(env.status, env.sout, env.serr),
              IF env.status # 0 THEN 2 ELSE 1,
              IF env.status # 0 THEN 2 ELSE 1, FALSE, FALSE)

\* Lines 118-138.  Popen(None) raises TypeError and starts nothing.
_exec_with_pipe(cmd, env) ==
    IF cmd = "None" THEN Shot(Failed("TypeError"), 1, 0, FALSE, FALSE)
    ELSE IF ~env.spawnOk THEN Shot(Failed("OSError"), 1, 0, FALSE, FALSE)
    ELSE Shot(Finish(env.status, env.sout, env.serr), 1, 1, FALSE, FALSE)

\* Lines 142-157, the body of the outer try: write the program, build the
\* command (None + [filename] raises TypeError), Popen, communicate, wait.
TempfileBody(cmd, env) ==
    IF ~env.writeOk THEN Shot(Failed("IOError"), 0, 0, TRUE, FALSE)
    ELSE IF cmd = "None" THEN Shot(Failed("TypeError"), 0, 0, TRUE, FALSE)
    ELSE IF ~env.spawnOk THEN Shot(Failed("OSError"), 1, 0, TRUE, FALSE)
    ELSE Shot(Finish(env.status, env.sout, env.serr), 1, 1, TRUE, FALSE)

\* os.remove after the body instead of in a finally: skipped when the body
\* raises.
TempfileRemoveOnReturn(cmd, env) ==
    IF ~env.mkOk THEN Shot(Failed("OSError"), 0, 0, FALSE, FALSE)
    ELSE LET b == TempfileBody(cmd, env)
         IN  [b EXCEPT !.removed = b.out.extracted]

\* Lines 139-158: mkstemp, the body, and os.remove in the finally.
_exec_with_tempfile(cmd, env) ==
    IF ~env.mkOk THEN Shot(Failed("OSError"), 0, 0, FALSE, FALSE)
    ELSE [TempfileBody(cmd, env) EXCEPT !.removed = TRUE]

\* AbstractRuntime.compile and AbstractRuntimeContext.exec_, the public
\* entry points in front of _compile and _exec_: they refuse an unavailable
\* runtime before the protected method runs.
Refused(avail) == ~avail

RequireAvailable(avail, shot) ==
    IF Refused(avail)
    THEN Shot(Failed("RuntimeUnavailableError"), 0, 0, FALSE, FALSE)
    ELSE shot

-----------------------------------------------------------------------------
(* Sessions: pyexpect.spawn, sendline, expect                              *)

\* end_str (line 112) and the prompt (line 31), each one token of the stream.
SENT == "//!!@@##"
PROMPT == "> "

\* A session handle: alive while its process runs and the caller has not
\* closed it, booted once the engine printed its first prompt, ready once
\* session() saw that prompt; inq the statements sent and not yet run, buf
\* the output not yet consumed by expect; abandoned once an evaluation gave
\* up waiting for its sentinel.
NewSession(alive) ==
    [alive |-> alive, booted |-> FALSE, ready |-> FALSE,
     inq |-> <<>>, buf |-> <<>>, abandoned |-> FALSE]

\* The process has exited or the caller has closed the handle.
Terminated(h) == ~h.alive

\* Nothing of an earlier statement is left: none waits to be run and no
\* sentinel waits to be read.
Quiet(h) == h.inq = <<>> /\ \A i \in 1..Len(h.buf) : h.buf[i] # SENT

Sessions == 1..Len(sess)

\* The index of the first tok in buf, 0 if there is none.
RECURSIVE IndexFrom(_, _, _)
IndexFrom(buf, tok, i) ==
    IF i > Len(buf) THEN 0
    ELSE IF buf[i] = tok THEN i
    ELSE IndexFrom(buf, tok, i + 1)

IndexOf(buf, tok) == IndexFrom(buf, tok, 1)

CountOf(buf, tok) == Cardinality({i \in 1..Len(buf) : buf[i] = tok})

\* expect(tok) on a buffer that holds tok: before is what precedes the first
\* match, and the buffer keeps what follows it (lines 60, 114-115).
expect(buf, tok) ==
    LET i == IndexOf(buf, tok)
    IN  [found |-> i > 0,
         before |-> SubSeq(buf, 1, i - 1),
         rest |-> SubSeq(buf, i + 1, Len(buf))]

\* sendline (line 113) writes the statement and its sentinel to the
\* session's terminal; nothing in lines 110-113 looks at the state of the
\* process first.  The write to a handle the caller has closed is refused
\* and raises OSError; the write to the terminal of a process that has
\* exited is refused on some platforms and accepted on others (Linux
\* accepts it), the text then waiting for a reader that never comes.
sendline(h, k, refused) ==
    IF Terminated(h) /\ refused THEN [raised |-> TRUE, inq |-> h.inq]
    ELSE [raised |-> FALSE, inq |-> Append(h.inq, k)]

\* The result line the wrapper prints for statement k.
ResultLine(st, k) == <<"[", DQ, st, DQ, ",", ToString(k), "]">>

\* What the engine writes for statement k: the echo of the program, the
\* result line, a prompt, the echo of the sentinel line and a prompt.  With
\* collide the statement's own output holds the sentinel string.
EngineOutput(k, st, collide) ==
    <<"x", LF>> \o (IF collide THEN <<SENT, LF>> ELSE <<>>)
    \o ResultLine(st, k) \o <<LF, PROMPT, SENT, LF, PROMPT>>

-----------------------------------------------------------------------------
(* Spec: the operations of the runtime and of its contexts                 *)

\* Context.__init__ (lines 75-80): the flags a context captures.
Context(tempfile, session) == [tempfile |-> tempfile, session |-> session]

\* ExternalRuntime._compile (lines 64-65).
_compile(tempfile, session) == Context(tempfile, session)

\* The dispatch with the session tested before the tempfile flag.
StrategySessionFirst(x) ==
    IF x.session # NoSession THEN "session"
    ELSE IF x.tempfile THEN "tempfile"
    ELSE "pipe"

\* The dispatch of lines 98-103: the temp file if the context's tempfile flag
\* is set, else the session if the context holds a handle, else the pipe.
Strategy(x) ==
    IF x.tempfile THEN "tempfile"
    ELSE IF x.session # NoSession THEN "session"
    ELSE "pipe"

Ended(op, out) == [NoLast EXCEPT !.op = op, !.out = out]

\* ExternalRuntime.__init__ (lines 31-42): _which found the executable or
\* not; tempfile is the constructor's argument.
Init ==
    /\ binary_cache \in {"None", "path"}
    /\ available = (binary_cache # "None")
    /\ rt_tempfile \in BOOLEAN
    /\ rt_session = NoSession
    /\ ctxs = {}
    /\ sess = <<>>
    /\ pc = [c \in Callers |-> "idle"]
    /\ waiting = [c \in Callers |-> NotWaiting]
    /\ last = NoLast
    /\ files = {}
    /\ nTmp = 0
    /\ nPopen = 0
    /\ spawnArgs = {}
    /\ nStmt = 0
    /\ nCalls = 0
    /\ output = <<>>
    /\ errout = <<>>
    /\ exit = 0
    /\ result = NoResult
    /\ phase = "done"
    /\ pieces = 0
    /\ WhIdle
    /\ CpIdle

\* session(), lines 58-59: pyexpect.spawn(cmd).  With cmd None it returns a
\* handle without a process, on which expect raises at once; otherwise it
\* starts the process or raises.
SessionSpawn(c) ==
    /\ pc[c] = "idle"
    /\ nCalls < MaxCalls
    /\ nCalls' = nCalls + 1
    /\ spawnArgs' = spawnArgs \cup {binary_cache}
    /\ IF binary_cache = "None"
       THEN /\ sess' = Append(sess, NewSession(FALSE))
            /\ rt_session' = Len(sess) + 1
            /\ last' = [Ended("session", Failed("ExceptionPexpect")) EXCEPT
                            !.sid = Len(sess) + 1]
            /\ UNCHANGED pc
       ELSE \E ok \in BOOLEAN :
            IF ok
            THEN /\ sess' = Append(sess, NewSession(TRUE))
                 /\ rt_session' = Len(sess) + 1
                 /\ pc' = [pc EXCEPT ![c] = "prompt"]
                 /\ UNCHANGED last
            ELSE /\ last' = Ended("session", Failed("ExceptionPexpect"))
                 /\ UNCHANGED <<sess, rt_session, pc>>
    /\ UNCHANGED <<binary_cache, available, rt_tempfile, ctxs, waiting, files,
                   nTmp, nPopen, nStmt, exVars, whVars, cpVars>>

\* session(), lines 60-62: self._session.expect(self._prompt) returns once
\* the prompt is in the output, or raises EOF on a terminated session.
SessionPrompt(c) ==
    /\ pc[c] = "prompt"
    /\ LET h == rt_session
           m == expect(sess[h].buf, PROMPT)
       IN  \/ /\ m.found
              /\ sess' = [sess EXCEPT ![h].buf = m.rest, ![h].ready = TRUE]
              /\ last' = [Ended("session", Outcome("return", None, FALSE)) EXCEPT
                              !.sid = h]
           \/ /\ ~m.found
              /\ Terminated(sess[h])
              /\ sess' = [sess EXCEPT ![h].buf = <<>>]
              /\ last' = [Ended("session", Failed("EOF")) EXCEPT !.sid = h]
    /\ pc' = [pc EXCEPT ![c] = "idle"]
    /\ UNCHANGED <<binary_cache, available, rt_tempfile, rt_session, ctxs,
                   waiting, files, nTmp, nPopen, spawnArgs, nStmt, nCalls, exVars, whVars, cpVars>>

\* compile(): refused on an unavailable runtime, else _compile (lines
\* 64-65) makes a new Context with the runtime's tempfile flag and current
\* session handle.
Compile(c) ==
    /\ pc[c] = "idle"
    /\ IF ~Refused(available)
       THEN /\ ctxs' = ctxs \cup {_compile(rt_tempfile, rt_session)}
            /\ last' = Ended("compile", Outcome("return", None, FALSE))
       ELSE /\ last' = Ended("compile", Failed("RuntimeUnavailableError"))
            /\ UNCHANGED ctxs
    /\ UNCHANGED <<binary_cache, available, rt_tempfile, rt_session, sess, pc,
                   waiting, files, nTmp, nPopen, spawnArgs, nStmt, nCalls, exVars, whVars, cpVars>>

\* The effects of a one-shot evaluation r made with command cmd.
OneShot(x, mode, r, cmd) ==
    /\ nCalls' = nCalls + 1
    /\ nPopen' = nPopen + r.procs
    /\ spawnArgs' = IF r.popen > 0 THEN spawnArgs \cup {cmd} ELSE spawnArgs
    /\ nTmp' = IF r.created THEN nTmp + 1 ELSE nTmp
    /\ files' = (files \cup (IF r.created THEN {nTmp + 1} ELSE {}))
                    \ (IF r.removed THEN {nTmp + 1} ELSE {})
    /\ last' = [Ended("exec", r.out) EXCEPT
                    !.ctx = x,
                    !.mode = mode, !.popen = r.popen, !.procs = r.procs,
                    !.pid = IF r.procs > 0 THEN nPopen + r.procs ELSE 0,
                    !.tmp = IF r.created THEN nTmp + 1 ELSE 0]
    /\ UNCHANGED <<binary_cache, available, rt_tempfile, rt_session, ctxs, sess,
                   pc, waiting, nStmt, exVars, whVars, cpVars>>

\* exec_ through a context with tempfile set (lines 98-99).
ExecTempfile(c) ==
    /\ pc[c] = "idle"
    /\ nCalls < MaxCalls
    /\ \E x \in ctxs, env \in Envs :
        /\ Strategy(x) = "tempfile"
        /\ OneShot(x, "tempfile",
                   RequireAvailable(available, _exec_with_tempfile(binary_cache, env)),
                   binary_cache)

\* exec_ through a context with neither tempfile nor a session (lines 102-103).
ExecPipe(c) ==
    /\ pc[c] = "idle"
    /\ nCalls < MaxCalls
    /\ \E x \in ctxs, env \in Envs :
        /\ Strategy(x) = "pipe"
        /\ OneShot(x, "pipe",
                   RequireAvailable(available, _exec_with_pipe(binary_cache, env)),
                   binary_cache)

\* exec_ through a context holding a session (lines 100-101), up to the
\* sendline of line 113.
SessionSend(c) ==
    /\ pc[c] = "idle"
    /\ nCalls < MaxCalls
    /\ nCalls' = nCalls + 1
    /\ \E x \in ctxs :
        /\ Strategy(x) = "session"
        /\ ~Refused(available)
        /\ \E refused \in IF Terminated(sess[x.session]) THEN BOOLEAN ELSE {FALSE} :
           LET s == x.session
               k == nStmt + 1
               w == sendline(sess[s], k, refused)
           IN  /\ nStmt' = k
               /\ sess' = [sess EXCEPT ![s].inq = w.inq]
               /\ IF w.raised
                  THEN /\ last' = [Ended("exec", Failed("OSError")) EXCEPT
                                      !.mode = "session", !.sid = s, !.stmt = k,
                                      !.dead = TRUE, !.ctx = x]
                       /\ UNCHANGED <<pc, waiting>>
                  ELSE /\ pc' = [pc EXCEPT ![c] = "await"]
                       /\ waiting' = [waiting EXCEPT
                                          ![c] = WaitOn(x, k, Quiet(sess[s]))]
                       /\ UNCHANGED last
    /\ UNCHANGED <<binary_cache, available, rt_tempfile, rt_session, ctxs, files,
                   nTmp, nPopen, spawnArgs, exVars, whVars, cpVars>>

\* Lines 114-116 and 104: expect(end_str) returns once the sentinel is in
\* the output and the text before it goes to the extractor; on a
\* terminated session without it, expect raises EOF.
SessionExpect(c) ==
    /\ pc[c] = "await"
    /\ LET s == waiting[c].sid
           m == expect(sess[s].buf, SENT)
           call == [NoLast EXCEPT !.op = "exec", !.mode = "session", !.sid = s,
                                  !.stmt = waiting[c].stmt,
                                  !.ctx = waiting[c].ctx]
       IN  \/ /\ m.found
              /\ sess' = [sess EXCEPT ![s].buf = m.rest]
              /\ last' = [call EXCEPT
                              !.out = Extracted(m.before), !.text = m.before,
                              !.orderly = ~sess[s].abandoned,
                              !.clean = /\ ~sess[s].abandoned
                                        /\ waiting[c].quiet
                                        /\ CountOf(sess[s].buf, SENT) = 1]
           \/ /\ ~m.found
              /\ Terminated(sess[s])
              /\ sess' = [sess EXCEPT ![s].buf = <<>>]
              /\ last' = [call EXCEPT !.out = Failed("EOF")]
    /\ pc' = [pc EXCEPT ![c] = "idle"]
    /\ waiting' = [waiting EXCEPT ![c] = NotWaiting]
    /\ UNCHANGED <<binary_cache, available, rt_tempfile, rt_session, ctxs, files,
                   nTmp, nPopen, spawnArgs, nStmt, nCalls, exVars, whVars, cpVars>>

\* expect() gives up (pexpect's default timeout) while what it waits for has
\* not arrived: TIMEOUT is raised and the buffer is kept.
SessionTimeout(c) ==
    /\ pc[c] \in {"prompt", "await"}
    /\ LET s == IF pc[c] = "prompt" THEN rt_session ELSE waiting[c].sid
           tok == IF pc[c] = "prompt" THEN PROMPT ELSE SENT
       IN  /\ ~expect(sess[s].buf, tok).found
           /\ ~Terminated(sess[s])
           /\ sess' = [sess EXCEPT ![s].abandoned = @ \/ (pc[c] = "await")]
           /\ last' = [Ended(IF pc[c] = "prompt" THEN "session" ELSE "exec",
                             Failed("TIMEOUT")) EXCEPT
                           !.mode = IF pc[c] = "prompt" THEN "none" ELSE "session",
                           !.sid = s, !.stmt = waiting[c].stmt,
                           !.ctx = waiting[c].ctx]
    /\ pc' = [pc EXCEPT ![c] = "idle"]
    /\ waiting' = [waiting EXCEPT ![c] = NotWaiting]
    /\ UNCHANGED <<binary_cache, available, rt_tempfile, rt_session, ctxs, files,
                   nTmp, nPopen, spawnArgs, nStmt, nCalls, exVars, whVars, cpVars>>

\* The engine of session s starts up: a banner and the first prompt.
EngineBoot(s) ==
    /\ sess[s].alive
    /\ ~sess[s].booted
    /\ sess' = [sess EXCEPT ![s].booted = TRUE,
                            ![s].buf = @ \o <<"x", LF, PROMPT>>]
    /\ UNCHANGED <<binary_cache, available, rt_tempfile, rt_session, ctxs, pc,
                   waiting, last, files, nTmp, nPopen, spawnArgs, nStmt, nCalls,
                   exVars, whVars, cpVars>>

\* The engine of session s runs the next statement it was sent.
EngineStep(s) ==
    /\ sess[s].alive
    /\ sess[s].booted
    /\ sess[s].inq # <<>>
    /\ \E st \in {"ok", "err"}, collide \in BOOLEAN :
        sess' = [sess EXCEPT
                    ![s].inq = Tail(@),
                    ![s].buf = @ \o EngineOutput(Head(sess[s].inq), st, collide)]
    /\ UNCHANGED <<binary_cache, available, rt_tempfile, rt_session, ctxs, pc,
                   waiting, last, files, nTmp, nPopen, spawnArgs, nStmt, nCalls,
                   exVars, whVars, cpVars>>

\* The process of session s exits, or the caller closes the handle.
SessionEnds(s) ==
    /\ ~Terminated(sess[s])
    /\ sess' = [sess EXCEPT ![s].alive = FALSE, ![s].inq = <<>>]
    /\ UNCHANGED <<binary_cache, available, rt_tempfile, rt_session, ctxs, pc,
                   waiting, last, files, nTmp, nPopen, spawnArgs, nStmt, nCalls,
                   exVars, whVars, cpVars>>

\* What caller c can do.
Call(c) ==
    \/ SessionSpawn(c)
    \/ SessionPrompt(c)
    \/ Compile(c)
    \/ ExecTempfile(c)
    \/ ExecPipe(c)
    \/ SessionSend(c)
    \/ SessionExpect(c)
    \/ SessionTimeout(c)

\* What the engine processes and the host do.
Environment ==
    \E s \in Sessions : EngineBoot(s) \/ EngineStep(s) \/ SessionEnds(s)

Next == (\E c \in Callers : Call(c)) \/ Environment

Spec == Init /\ [][Next]_vars

\* The same runtime used by one caller: every call ends before the next begins.
NextSeq == Call(1) \/ Environment

SpecSeq == Init /\ [][NextSeq]_vars

-----------------------------------------------------------------------------
(* SpecWhich: the executable search (_which, _find_executable) and its     *)
(* cache (_binary, is_available)                                           *)

\* How many directories PATH lists at most.
MaxPath == 2

Dirs == {"a", "b"}

\* What os.stat finds at a file name: nothing (os.error), or a mode that is
\* a regular file's or not and has an execute bit or not.
Absent     == [exists |-> FALSE, reg |-> FALSE, x |-> FALSE]
Directory  == [exists |-> TRUE,  reg |-> FALSE, x |-> TRUE]
Plain      == [exists |-> TRUE,  reg |-> TRUE,  x |-> FALSE]
Executable == [exists |-> TRUE,  reg |-> TRUE,  x |-> TRUE]

Kinds == {Absent, Directory, Plain, Executable}

\* Commands as the runtimes of lines 250-344 give them: a name to search
\* for, or an absolute path, and the fixed arguments that follow it.
Commands ==
    { [name |-> "cscript", args |-> " //E:jscript"],
      [name |-> "/jsc", args |-> ""] }

AbsoluteNames == {"/jsc"}

PathLists == UNION {[1..n -> Dirs] : n \in 1..MaxPath}

\* PATHEXT split at os.pathsep, on Windows; not read elsewhere.
ExtLists(plat) ==
    IF plat = "Windows" THEN {<<".exe">>, <<"", ".exe">>, <<".exe", "">>}
    ELSE {<<"">>}

\* os.path.join(dir, prog + ext) (line 217): an absolute prog discards dir.
Filename(dir, prog, ext) ==
    IF prog \in AbsoluteNames THEN prog \o ext ELSE dir \o "/" \o prog \o ext

\* The file names a search for cmd can stat on platform plat.
Files(cmd, plat) ==
    {Filename(d, cmd.name, e) : d \in Dirs, e \in {"", ".exe"} \cap
                                      (IF plat = "Windows" THEN {"", ".exe"} ELSE {""})}

\* The loops of lines 215-223 from directory i and extension j on.
RECURSIVE FindFrom(_, _, _, _, _, _)
FindFrom(disk, pathlist, pathext, prog, i, j) ==
    IF i > Len(pathlist) THEN "None"
    ELSE IF j > Len(pathext) THEN FindFrom(disk, pathlist, pathext, prog, i + 1, 1)
    ELSE LET filename == Filename(pathlist[i], prog, pathext[j])
             st == disk[filename]
         IN  IF ~st.exists
             THEN FindFrom(disk, pathlist, pathext, prog, i, j + 1)
             ELSE IF st.reg /\ st.x THEN filename
             ELSE FindFrom(disk, pathlist, pathext, prog, i, j + 1)

\* The same loops with the extension outside and the directory inside.
RECURSIVE FindExtFirst(_, _, _, _, _, _)
FindExtFirst(disk, pathlist, pathext, prog, i, j) ==
    IF j > Len(pathext) THEN "None"
    ELSE IF i > Len(pathlist) THEN FindExtFirst(disk, pathlist, pathext, prog, 1, j + 1)
    ELSE LET filename == Filename(pathlist[i], prog, pathext[j])
             st == disk[filename]
         IN  IF st.exists /\ st.reg /\ st.x THEN filename
             ELSE FindExtFirst(disk, pathlist, pathext, prog, i + 1, j)

FindExecutableExtFirst(disk, env, prog, pathext) ==
    FindExtFirst(disk, env.PATH, pathext, prog, 1, 1)

\* _find_executable (lines 211-224)
_find_executable(disk, env, prog, pathext) ==
    FindFrom(disk, env.PATH, pathext, prog, 1, 1)

\* _which (lines 227-243): the path found, followed by the arguments, or
\* None.
_which(disk, env, plat, cmd) ==
    LET path == IF plat = "Windows"
                THEN _find_executable(disk, env, cmd.name, env.PATHEXT)
                ELSE _find_executable(disk, env, cmd.name, <<"">>)
    IN  IF path = "None" THEN "None" ELSE path \o cmd.args

\* _binary that takes a cached None for a missing cache and searches again.
BinaryUnlessFound(cache, disk, env, plat, cmd) ==
    IF cache \in {"unset", "None"}
    THEN LET w == _which(disk, env, plat, cmd)
         IN  [value |-> w, cache |-> w, searched |-> 1]
    ELSE [value |-> cache, cache |-> cache, searched |-> 0]

\* _binary (lines 67-70): what it returns, the cache it leaves and how many
\* searches it made.  "unset" is the missing attribute.
_binary(cache, disk, env, plat, cmd) ==
    IF cache = "unset"
    THEN LET w == _which(disk, env, plat, cmd)
         IN  [value |-> w, cache |-> w, searched |-> 1]
    ELSE [value |-> cache, cache |-> cache, searched |-> 0]

Constructed == binary_cache # "unset"

\* __init__ up to line 40, on every platform, environment and filesystem.
WhInit ==
    /\ platform \in {"Linux", "Windows"}
    /\ command \in Commands
    /\ environ \in [PATH : PathLists, PATHEXT : ExtLists(platform)]
    /\ fs \in [Files(command, platform) -> Kinds]
    /\ nSearch = 0
    /\ probe = NoProbe
    /\ binary_cache = "unset"
    /\ available = FALSE
    /\ rt_tempfile = FALSE
    /\ rt_session = NoSession
    /\ ctxs = {}
    /\ sess = <<>>
    /\ pc = [c \in Callers |-> "idle"]
    /\ waiting = [c \in Callers |-> NotWaiting]
    /\ last = NoLast
    /\ files = {}
    /\ nTmp = 0
    /\ nPopen = 0
    /\ spawnArgs = {}
    /\ nStmt = 0
    /\ nCalls = 0
    /\ ExIdle
    /\ CpIdle

WhFrame ==
    UNCHANGED <<platform, command, rt_tempfile, rt_session, ctxs, sess, pc,
                waiting, last, files, nTmp, nPopen, spawnArgs, nStmt, nCalls,
                exVars, cpVars>>

\* Line 42: self._available = self._binary() is not None
Construct ==
    /\ ~Constructed
    /\ LET b == _binary(binary_cache, fs, environ, platform, command)
       IN  /\ binary_cache' = b.cache
           /\ available' = (b.value # "None")
           /\ nSearch' = nSearch + b.searched
           /\ probe' = [op |-> "construct", path |-> b.value,
                        avail |-> (b.value # "None")]
    /\ UNCHANGED <<environ, fs>>
    /\ WhFrame

\* is_available() (lines 54-55)
IsAvailable ==
    /\ Constructed
    /\ probe' = [op |-> "is_available", path |-> "None", avail |-> available]
    /\ UNCHANGED <<binary_cache, available, nSearch, environ, fs>>
    /\ WhFrame

\* A later _binary() call (lines 58, 119, 145)
Binary ==
    /\ Constructed
    /\ LET b == _binary(binary_cache, fs, environ, platform, command)
       IN  /\ binary_cache' = b.cache
           /\ nSearch' = nSearch + b.searched
           /\ probe' = [op |-> "_binary", path |-> b.value, avail |-> FALSE]
    /\ UNCHANGED <<available, environ, fs>>
    /\ WhFrame

\* The filesystem changes under the runtime: a candidate appears, vanishes
\* or changes its mode.
Touch ==
    /\ Constructed
    /\ \E f \in DOMAIN fs, k \in Kinds :
        /\ fs[f] # k
        /\ fs' = [fs EXCEPT ![f] = k]
    /\ probe' = NoProbe
    /\ UNCHANGED <<binary_cache, available, nSearch, environ>>
    /\ WhFrame

\* PATH changes under the runtime.
SetPath ==
    /\ Constructed
    /\ \E pl \in PathLists :
        /\ pl # environ.PATH
        /\ environ' = [environ EXCEPT !.PATH = pl]
    /\ probe' = NoProbe
    /\ UNCHANGED <<binary_cache, available, nSearch, fs>>
    /\ WhFrame

WhNext == Construct \/ IsAvailable \/ Binary \/ Touch \/ SetPath

SpecWhich == WhInit /\ [][WhNext]_vars

-----------------------------------------------------------------------------
(* SpecTemplate: Context._compile, the substitution of the placeholders of *)
(* the wrapper template                                                    *)

\* Program text is a sequence of tokens: "#{" and "}" as they stand, the
\* three placeholder names and "other" as words, "t" and "x" for any other
\* text, the line breaks and the double quote, and the escapes json.dumps
\* and encode_unicode_codepoints write.

\* How many parts a wrapper template is made of at most.
MaxParts == 3

PlaceholderNames == {"source", "encoded_source", "json2_source"}

Placeholder(name) == <<"#{", name, "}">>

\* The pieces templates are made of: text, the halves of a placeholder, the
\* three placeholders and an unknown one.
Parts ==
    { <<"t">>, <<"#{">>, <<"}">>, <<"source">>,
      Placeholder("source"), Placeholder("encoded_source"),
      Placeholder("json2_source"), Placeholder("other") }

RECURSIVE Concat(_)
Concat(ps) == IF ps = <<>> THEN <<>> ELSE Head(ps) \o Concat(Tail(ps))

Templates == {Concat(ps) : ps \in UNION {[1..n -> Parts] : n \in 0..MaxParts}}

\* The snippets: nothing, text with a line break, a quote and U+2028, a
\* placeholder in full, and the tail of one.
Snippets ==
    { <<>>, <<"x", LF, DQ, LS>>, Placeholder("source"), <<"source", "}">> }

\* encode_unicode_codepoints: a character outside ASCII becomes its \u escape.
encode_unicode_codepoints(str) ==
    [i \in 1..Len(str) |-> IF str[i] = LS THEN "\\u2028" ELSE str[i]]

\* json.dumps of a string: quoted, with the quote and the line breaks escaped.
json_dumps(str) ==
    <<DQ>> \o [i \in 1..Len(str) |->
                  IF str[i] = DQ THEN "\\\""
                  ELSE IF str[i] = LF THEN "\\n"
                  ELSE IF str[i] = CR THEN "\\r"
                  ELSE str[i]] \o <<DQ>>

\* _json2._json2_source(): a fixed text without placeholders.
json2_source == <<"json2">>

\* The replacements of lines 167-176.
Replacement(name, source) ==
    IF name = "source" THEN source
    ELSE IF name = "encoded_source"
    THEN json_dumps(<<"(function(){ ">> \o encode_unicode_codepoints(source)
                        \o <<" })()">>)
    ELSE json2_source

\* The pattern of line 178 matches at position i.
MatchAt(text, i) ==
    /\ i + 2 <= Len(text)
    /\ text[i] = "#{"
    /\ text[i + 1] \in PlaceholderNames
    /\ text[i + 2] = "}"

\* re.sub (line 180) from position i on: one pass from left to right; the
\* text put in for a match is not scanned again.
RECURSIVE SubFrom(_, _, _)
SubFrom(text, i, source) ==
    IF i > Len(text) THEN <<>>
    ELSE IF MatchAt(text, i)
    THEN Replacement(text[i + 1], source) \o SubFrom(text, i + 3, source)
    ELSE <<text[i]>> \o SubFrom(text, i + 1, source)

\* re.sub with count=1: only the first match is replaced.
RECURSIVE SubFirstFrom(_, _, _)
SubFirstFrom(text, i, source) ==
    IF i > Len(text) THEN <<>>
    ELSE IF MatchAt(text, i)
    THEN Replacement(text[i + 1], source) \o SubSeq(text, i + 3, Len(text))
    ELSE <<text[i]>> \o SubFirstFrom(text, i + 1, source)

CompileFirstOnly(runner_source, source) == SubFirstFrom(runner_source, 1, source)

\* Context._compile (lines 164-181)
Context_compile(runner_source, source) == SubFrom(runner_source, 1, source)

\* The state of the runtime's variables while only program text is followed.
RtUnused ==
    /\ binary_cache = "path"
    /\ available = TRUE
    /\ rt_tempfile = FALSE
    /\ rt_session = NoSession
    /\ ctxs = {}
    /\ sess = <<>>
    /\ pc = [c \in Callers |-> "idle"]
    /\ waiting = [c \in Callers |-> NotWaiting]
    /\ last = NoLast
    /\ files = {}
    /\ nTmp = 0
    /\ nPopen = 0
    /\ spawnArgs = {}
    /\ nStmt = 0
    /\ nCalls = 0

\* A context without header, about to compile one snippet with one template.
TpInit ==
    /\ template \in Templates
    /\ snippet \in Snippets
    /\ ctx = [source |-> <<>>, cwd |-> "None", tempfile |-> FALSE, session |-> NoSession]
    /\ engine = <<>>
    /\ given = <<>>
    /\ program = <<>>
    /\ delivered = <<>>
    /\ dmode = "none"
    /\ nEval = 0
    /\ RtUnused
    /\ ExIdle
    /\ WhIdle

\* self._compile(source)
TemplateCompile ==
    /\ nEval = 0
    /\ given' = snippet
    /\ program' = Context_compile(template, snippet)
    /\ nEval' = 1
    /\ UNCHANGED <<template, snippet, ctx, engine, delivered, dmode, exVars,
                   rtVars, whVars>>

TpNext == TemplateCompile

SpecTemplate == TpInit /\ [][TpNext]_vars

-----------------------------------------------------------------------------
(* SpecDeliver: the program text of the evaluations through one Context,   *)
(* from _exec_ to the text written to the pipe, the file or the session    *)

\* How many evaluations the context makes.
MaxEvals == 2

Headers == {<<>>, <<"h">>}

\* Wrapper templates of two lines and of one.
DeliverTemplates ==
    { <<"t", LF>> \o Placeholder("source"), Placeholder("encoded_source") }

\* cmd[0], the path _which found, as its components: node and deno in a
\* system directory, and node under a directory named after deno.
EnginePaths == { <<"usr", "node">>, <<"usr", "deno">>, <<".deno", "node">> }

\* The executable is deno's.
IsDeno(path) == path[Len(path)] = "deno"

\* 'deno' in cmd[0] (line 129): the substring test on the whole path.
HasDeno(path) == \E i \in 1..Len(path) : path[i] \in {"deno", ".deno"}

\* ''.join(input.splitlines())
Flatten(text) == Concat(splitlines(text))

\* What each strategy writes: the program into the file (line 144), the
\* program and the sentinel line to the session (line 113), and to the pipe
\* the program, flattened for a path that holds 'deno' (lines 129-130).
Deliver(mode, text, path) ==
    IF mode = "tempfile" THEN text
    ELSE IF mode = "session" THEN text \o <<LF, SENT>>
    ELSE IF HasDeno(path) THEN Flatten(text)
    ELSE text

\* _exec_ that stores the source with its header back into the context.
ExecKeepsSource(x, source, runner_source, path) ==
    LET src == IF x.source # <<>> THEN x.source \o <<LF>> \o source ELSE source
        text == Context_compile(runner_source, src)
    IN  [ctx |-> [x EXCEPT !.source = src], given |-> src, program |-> text,
         mode |-> Strategy(x),
         delivered |-> Deliver(Strategy(x), text, path)]

\* _exec_ (lines 94-104) up to the delivery of the program: the header is
\* put before the source in a local variable, the strategy is chosen, and
\* the strategy compiles that source (lines 111, 125, 144) and writes it.
_exec_(x, source, runner_source, path) ==
    LET src == IF x.source # <<>> THEN x.source \o <<LF>> \o source ELSE source
        text == Context_compile(runner_source, src)
    IN  [ctx |-> x, given |-> src, program |-> text,
         mode |-> Strategy(x),
         delivered |-> Deliver(Strategy(x), text, path)]

\* A context with or without header, working directory, tempfile flag and
\* session, on a runtime with one of the templates and engines.
DvInit ==
    /\ template \in DeliverTemplates
    /\ snippet = <<>>
    /\ ctx \in [source : Headers, cwd : {"None", "dir"}, tempfile : BOOLEAN,
                session : {NoSession, 1}]
    /\ engine \in EnginePaths
    /\ given = <<>>
    /\ program = <<>>
    /\ delivered = <<>>
    /\ dmode = "none"
    /\ nEval = 0
    /\ RtUnused
    /\ ExIdle
    /\ WhIdle

\* exec_(source) through the context
Evaluate ==
    /\ nEval < MaxEvals
    /\ \E source \in Snippets :
        LET e == _exec_(ctx, source, template, engine)
        IN  /\ snippet' = source
            /\ ctx' = e.ctx
            /\ given' = e.given
            /\ program' = e.program
            /\ delivered' = e.delivered
            /\ dmode' = e.mode
    /\ nEval' = nEval + 1
    /\ UNCHANGED <<template, engine, exVars, rtVars, whVars>>

DvNext == Evaluate

SpecDeliver == DvInit /\ [][DvNext]_vars

-----------------------------------------------------------------------------
(* Claims about the end of a one-shot evaluation (SpecExtract)             *)

\* C3: an evaluation whose process exits with a non-zero status fails with
\* ProcessExitedWithNonZeroStatus carrying that status and the captured
\* stdout and stderr, whatever the stdout holds, and the extractor is not
\* run; an exit status of 0 never raises this error.
C3_NonZeroExitIsFatal ==
    phase = "done" =>
        /\ exit # 0 =>
            /\ result.kind = "ProcessExitedWithNonZeroStatus"
            /\ result.status = exit
            /\ result.stdout = output
            /\ result.stderr = errout
            /\ ~result.extracted
        /\ exit = 0 =>
            /\ result.kind # "ProcessExitedWithNonZeroStatus"
            /\ result.extracted

\* A process killed by a signal after it printed a well-formed ok line.
C3_Witness ==
    /\ phase = "done"
    /\ exit = -9
    /\ output = OkLine
    /\ errout = Banner
    /\ result.kind = "ProcessExitedWithNonZeroStatus"

\* The lines of a text as C5 reads them: CR LF and CR turned into LF, then
\* the pieces between the LFs.
RECURSIVE SplitAtLF(_, _, _)
SplitAtLF(s, i, line) ==
    IF i > Len(s) THEN <<line>>
    ELSE IF s[i] = LF THEN <<line>> \o SplitAtLF(s, i + 1, <<>>)
    ELSE SplitAtLF(s, i + 1, Append(line, s[i]))

LinesBetweenLF(out) == SplitAtLF(ReplaceCR(ReplaceCRLF(out)), 1, <<>>)

\* C5: for every raw output with at least one line containing ']', the
\* extractor, after turning CR LF and CR into LF, decodes exactly the last
\* line containing ']'.
C5_LastBracketLineDecoded ==
    (phase = "done" /\ exit = 0 /\ Len(BracketLines(LinesBetweenLF(output))) > 0) =>
        LET lines == BracketLines(LinesBetweenLF(output))
            d == DecodeLine(lines[Len(lines)])
        IN  result.kind = d.kind /\ result.value = d.value

\* The line the extractor selects, and whether there is one.
HasSelected(out) ==
    Len(BracketLines(splitlines(ReplaceCR(ReplaceCRLF(out))))) > 0
Selected(out) ==
    LET c == BracketLines(splitlines(ReplaceCR(ReplaceCRLF(out)))) IN c[Len(c)]

\* Whether a decoded line is an array of one or two elements.
IsResultTuple(d) == d.ok /\ d.val[1] = "arr" /\ Len(d.val[2]) \in {1, 2}

\* C6: when the selected line decodes to [status, value] or [status], the
\* call returns value (null for [status]) if and only if status is "ok",
\* and raises ProgramError carrying value for every other status; a
\* non-zero exit is never reported as ProgramError and a program error of a
\* process that exited 0 is never reported as a transport failure.
C6_StatusDecidesOutcome ==
    phase = "done" =>
        /\ exit # 0 => result.kind # "ProgramError"
        /\ (exit = 0 /\ HasSelected(output)) =>
            LET d == json_loads(Selected(output))
            IN  IsResultTuple(d) =>
                    LET status == d.val[2][1]
                        value == IF Len(d.val[2]) = 2 THEN d.val[2][2] ELSE None
                    IN  /\ result.kind \in {"return", "ProgramError"}
                        /\ result.kind = "return" <=> status = <<"str", <<"o", "k">>>>
                        /\ result.value = value

\* An error line after a banner: ProgramError carrying the line's value.
C6_Witness ==
    /\ phase = "done"
    /\ exit = 0
    /\ output = Banner \o <<LF>> \o ErrLine
    /\ result.kind = "ProgramError"
    /\ result.value = <<"num", <<"2">>>>

\* What a failure to decode the output raises.
DecodeFailures == {"IndexError", "JSONDecodeError", "ValueError", "TypeError"}

\* C7: when the output has no line containing ']', or the selected line is
\* not valid JSON, or it does not decode to a one- or two-element array, the
\* evaluation fails with a decoding failure, which is neither
\* ProcessExitedWithNonZeroStatus nor ProgramError, and returns no value.
C7_MalformedOutputIsDecodingFailure ==
    (phase = "done" /\ exit = 0) =>
        LET malformed ==
                \/ ~HasSelected(output)
                \/ ~IsResultTuple(json_loads(Selected(output)))
        IN  malformed => result.kind \in DecodeFailures

-----------------------------------------------------------------------------
(* Claims about the runtime, its one-shot evaluations and its sessions     *)

\* C1: for a runtime whose executable was not found, no operation ever
\* hands a command to a spawn primitive, and every call that ends ends in
\* the unavailability error.
C1_UnavailableNeverSpawns ==
    ~available =>
        /\ spawnArgs = {}
        /\ last.op # "none" => last.out.kind = "RuntimeUnavailableError"

OneShotEnded == last.op = "exec" /\ last.mode \in {"pipe", "tempfile"}

\* C2: in tempfile mode, whatever the outcome of the evaluation, the
\* temporary file created for the call does not exist once the call has
\* returned or raised.
C2_TempFileRemoved ==
    /\ \A f \in 1..nTmp : f \notin files
    /\ (OneShotEnded /\ last.mode = "tempfile") => last.tmp \notin files

\* A tempfile evaluation that failed to write its program into the file it
\* had created.
C2_Witness ==
    /\ OneShotEnded
    /\ last.mode = "tempfile"
    /\ last.tmp = 2
    /\ last.out.kind = "IOError"

\* C4 as stated: every evaluation in pipe or tempfile mode spawns exactly
\* one process, whatever its outcome.
C4_ExactlyOneProcess == OneShotEnded => last.procs = 1

\* C4 amended: an evaluation in pipe or tempfile mode calls Popen at most
\* once and starts at most one process; it starts exactly one, its own and
\* the newest, whenever it ends with a non-zero exit or gets to the
\* extractor; it starts none only when it fails before or at the spawn.
C4_AtMostOneProcess ==
    OneShotEnded =>
        /\ last.popen <= 1
        /\ last.procs <= 1
        /\ (last.out.extracted \/ last.out.kind = "ProcessExitedWithNonZeroStatus")
               => (last.procs = 1 /\ last.pid = nPopen)
        /\ last.procs = 0 =>
               /\ ~last.out.extracted
               /\ last.out.kind \in {"OSError", "IOError", "TypeError",
                                     "RuntimeUnavailableError"}

\* The second evaluation of a run, failing on a non-zero exit, with a
\* process of its own.
C4_Witness ==
    /\ OneShotEnded
    /\ last.mode = "pipe"
    /\ last.out.kind = "ProcessExitedWithNonZeroStatus"
    /\ last.procs = 1
    /\ last.pid = 2

\* C8: on one session at most one statement is outstanding (sent, its
\* sentinel not yet consumed by its sender), for every interleaving of two
\* callers.
C8_OneOutstandingStatement ==
    \A s \in Sessions :
        Cardinality({c \in Callers : pc[c] = "await" /\ waiting[c].sid = s}) <= 1

\* Whether text holds the result line of statement k.
HasResultOf(text, k) ==
    \E i \in 1..Len(text) :
        /\ i + 2 <= Len(text)
        /\ text[i] = ","
        /\ text[i + 1] = ToString(k)
        /\ text[i + 2] = "]"

\* The text handed to the extractor is the output of the call's own
\* statement: it holds that statement's result line and no other's, and the
\* call ends with that statement's value.
OwnOutput(call) ==
    /\ HasResultOf(call.text, call.stmt)
    /\ \A j \in 1..MaxCalls : j # call.stmt => ~HasResultOf(call.text, j)
    /\ call.out.kind \in {"return", "ProgramError"}
    /\ call.out.value = <<"num", <<ToString(call.stmt)>>>>

SessionEvalEnded ==
    last.op = "exec" /\ last.mode = "session" /\ last.out.extracted

\* C9 as stated: for statements evaluated one after another on a session,
\* each having waited for its sentinel, the text handed to the extractor
\* for a call is the output of its own statement, for every engine output
\* stream.
C9_TextIsOwnOutput == (SessionEvalEnded /\ last.orderly) => OwnOutput(last)

\* What lines 110-116 do achieve: the text is the call's own output when
\* the sentinel string arrives once per statement, as its sentinel line.
CleanTextIsOwnOutput == (SessionEvalEnded /\ last.clean) => OwnOutput(last)

\* A later statement of a session whose traffic was orderly, ending in a
\* program error of its own.
CleanSecondStatement ==
    /\ SessionEvalEnded
    /\ last.clean
    /\ last.stmt = 2
    /\ last.out.kind = "ProgramError"
    /\ sess[last.sid].ready
    /\ sess[last.sid].buf = <<LF, PROMPT>>

\* C10: once a session has terminated it stays terminated and no statement
\* is submitted to it: no caller comes to wait on it, and an evaluation
\* begun on it fails at the send.
C10_TerminatedSessionGetsNothing ==
    [][ /\ \A s \in Sessions :
            Terminated(sess[s]) =>
                /\ Terminated(sess'[s])
                /\ sess'[s].inq = sess[s].inq
        /\ \A c \in Callers :
            (pc[c] = "idle" /\ pc'[c] = "await") =>
                ~Terminated(sess[waiting'[c].sid])
        /\ (nStmt' # nStmt /\ pc' = pc) =>
                /\ last'.out.kind = "OSError"
                /\ last'.stmt = nStmt'
                /\ Terminated(sess[last'.sid])
      ]_vars

\* An evaluation through a context that holds a session which was ready and
\* has terminated since, refused at the send.
RefusedByTerminatedSession ==
    /\ last.op = "exec"
    /\ last.mode = "session"
    /\ last.dead
    /\ last.out.kind = "OSError"
    /\ sess[last.sid].ready
    /\ Terminated(sess[last.sid])

\* C11: no statement is submitted to a session before session() has seen
\* the prompt in that session's output: a caller waits for a sentinel only
\* on a session that is ready.
C11_NoStatementBeforeReady ==
    \A c \in Callers :
        pc[c] = "await" => sess[waiting[c].sid].ready

\* C12: every session process the runtime has spawned is the runtime's
\* current session handle or has terminated, so at most one is alive.
C12_LiveSessionIsCurrent ==
    /\ \A s \in Sessions : sess[s].alive => s = rt_session
    /\ Cardinality({s \in Sessions : sess[s].alive}) <= 1

-----------------------------------------------------------------------------
(* Claims about the executable search (SpecWhich)                          *)

\* C13: the executable search runs once per runtime, at construction; every
\* later _binary() returns the cached result and every is_available() tells
\* whether that result is a path, also when the result was None and when
\* PATH or the filesystem have changed since; nothing changes the cache.
C13_SearchedOnceAndCached ==
    /\ [](/\ nSearch <= 1
          /\ Constructed => (nSearch = 1 /\ available = (binary_cache # "None"))
          /\ probe.op = "_binary" => probe.path = binary_cache
          /\ probe.op = "is_available" => probe.avail = (binary_cache # "None"))
    /\ [][Constructed => /\ binary_cache' = binary_cache
                         /\ available' = available
                         /\ nSearch' = nSearch]_vars

\* _binary() returns the cached None although a search would now find the
\* executable.
C13_Witness ==
    /\ probe.op = "_binary"
    /\ probe.path = "None"
    /\ nSearch = 1
    /\ _which(fs, environ, platform, command) # "None"

\* os.stat found a regular file with at least one execute bit.
Qualifies(st) == st.exists /\ st.reg /\ st.x

\* The extension list the search uses.
PathextInEffect == IF platform = "Windows" THEN environ.PATHEXT ELSE <<"">>

CandidateAt(c) ==
    Filename(environ.PATH[c[1]], command.name, PathextInEffect[c[2]])

\* Candidate c comes before candidate d: earlier directory, or the same
\* directory and earlier extension.
ComesBefore(c, d) == c[1] < d[1] \/ (c[1] = d[1] /\ c[2] < d[2])

\* C14: the search returns the first candidate, in directory order and then
\* extension order, that is a regular file with an execute bit, followed by
\* the fixed arguments; it returns None exactly when no candidate is one.
C14_FirstQualifyingCandidate ==
    probe.op = "construct" =>
        LET all == (1..Len(environ.PATH)) \X (1..Len(PathextInEffect))
            good == {c \in all : Qualifies(fs[CandidateAt(c)])}
        IN  IF good = {} THEN probe.path = "None"
            ELSE \E c \in good :
                    /\ \A d \in good : d = c \/ ComesBefore(c, d)
                    /\ probe.path = CandidateAt(c) \o command.args

\* The first directory holds a directory and a file without execute bit
\* under the candidate names; the search goes on to the second directory.
C14_Witness ==
    /\ probe.op = "construct"
    /\ platform = "Windows"
    /\ environ.PATH = <<"a", "b">>
    /\ environ.PATHEXT = <<"", ".exe">>
    /\ command.name = "cscript"
    /\ fs["a/cscript"] = Directory
    /\ fs["a/cscript.exe"] = Plain
    /\ fs["b/cscript"] = Absent
    /\ probe.path = "b/cscript.exe //E:jscript"

-----------------------------------------------------------------------------
(* Claims about the template compiler (SpecTemplate)                       *)

HasMatch(text) == \E i \in 1..Len(text) : MatchAt(text, i)

\* The places of the placeholders in the template.
Occurrences == {i \in 1..Len(template) : MatchAt(template, i)}

InOccurrence(i) == \E p \in Occurrences : p <= i /\ i <= p + 2

RECURSIVE SumOver(_, _)
SumOver(set, f) ==
    IF set = {} THEN 0
    ELSE LET e == CHOOSE e \in set : TRUE
         IN  f[e] + SumOver(set \ {e}, f)

\* By how much the text before place i of the template has grown.
Growth(i) ==
    SumOver({p \in Occurrences : p < i},
            [p \in Occurrences |-> Len(Replacement(template[p + 1], given)) - 3])

\* Every placeholder of the template has been replaced by its replacement
\* text, and every other token of the template stands unchanged between
\* them, in the order of the template.
TemplateSubstituted ==
    /\ Len(program) = Len(template) + Growth(Len(template) + 1)
    /\ \A i \in 1..Len(template) :
        ~InOccurrence(i) => program[i + Growth(i)] = template[i]
    /\ \A p \in Occurrences :
        LET r == Replacement(template[p + 1], given)
        IN  SubSeq(program, p + Growth(p), p + Growth(p) + Len(r) - 1) = r

\* C15 as stated: the compiled program holds none of the three placeholders,
\* every placeholder of the template has been replaced, and all other text
\* of the template is unchanged.
C15_NoPlaceholderLeft ==
    nEval = 1 => (~HasMatch(program) /\ TemplateSubstituted)

\* C15 amended: every placeholder of the template has been replaced and all
\* other text of the template is unchanged; the compiled program holds no
\* placeholder when the snippet is text that has no part of one.
C15_TemplateSubstituted ==
    nEval = 1 =>
        /\ TemplateSubstituted
        /\ given = <<"x", LF, DQ, LS>> => ~HasMatch(program)

\* Two placeholders and an unknown one between them, compiled with a
\* snippet that holds a line break, a quote and U+2028.
C15_Witness ==
    /\ nEval = 1
    /\ template = Placeholder("source") \o Placeholder("other")
                      \o Placeholder("encoded_source")
    /\ given = <<"x", LF, DQ, LS>>
    /\ program = <<"x", LF, DQ, LS, "#{", "other", "}", DQ, "(function(){ ", "x",
                   "\\n", "\\\"", "\\u2028", " })()", DQ>>

-----------------------------------------------------------------------------
(* Claims about the program text of an evaluation (SpecDeliver)            *)

\* C16: in every delivery mode the source given to the template compiler is
\* the header, a newline and the snippet when the context has a header, and
\* the snippet alone otherwise; no evaluation changes the context's header,
\* working directory or flags.
C16_HeaderBeforeSnippet ==
    /\ [](nEval > 0 =>
            /\ given = (IF ctx.source = <<>> THEN snippet
                        ELSE ctx.source \o <<LF>> \o snippet)
            /\ program = Context_compile(template, given))
    /\ [][ctx' = ctx]_vars

\* The second evaluation through a context with a header and a session.
C16_Witness ==
    /\ nEval = 2
    /\ dmode = "session"
    /\ ctx.source = <<"h">>
    /\ snippet = <<"x", LF, DQ, LS>>
    /\ given = <<"h", LF, "x", LF, DQ, LS>>

\* C17: in pipe mode the program text is written flattened exactly when the
\* executable is deno's and unchanged for every other engine; the temp file
\* and the session get it unflattened.
C17_FlattenedOnlyForDeno ==
    nEval > 0 =>
        /\ dmode = "pipe" =>
               delivered = (IF IsDeno(engine) THEN Flatten(program) ELSE program)
        /\ dmode = "tempfile" => delivered = program
        /\ dmode = "session" => delivered = program \o <<LF, SENT>>

-----------------------------------------------------------------------------
(* Claims about the choice of the delivery strategy (Spec, SpecSeq)        *)

\* The strategy the flags x captured at compilation call for.
ByPriority(x, mode) ==
    /\ x.tempfile => mode = "tempfile"
    /\ (~x.tempfile /\ x.session # NoSession) => mode = "session"
    /\ (~x.tempfile /\ x.session = NoSession) => mode = "pipe"

\* C18: every evaluation uses the one strategy its context's flags call
\* for, tempfile before session before pipe, whatever the runtime's session
\* handle is by then; a session evaluation uses the handle its context
\* captured; no strategy does the work of another; contexts never change.
C18_StrategyFromCapturedFlags ==
    /\ [](/\ last.op = "exec" =>
                /\ last.ctx \in ctxs
                /\ ByPriority(last.ctx, last.mode)
                /\ last.mode = "session" =>
                       /\ last.sid = last.ctx.session
                       /\ last.popen = 0
                       /\ last.tmp = 0
                /\ last.mode = "pipe" => (last.tmp = 0 /\ last.sid = NoSession)
                /\ last.mode = "tempfile" => last.sid = NoSession
          /\ \A c \in Callers :
                pc[c] = "await" =>
                    /\ waiting[c].ctx \in ctxs
                    /\ ByPriority(waiting[c].ctx, "session")
                    /\ waiting[c].sid = waiting[c].ctx.session)
    /\ [][ctxs \subseteq ctxs']_vars

\* A context compiled after the first session() call evaluates through the
\* handle it captured although a later session() call has replaced the
\* runtime's handle.
C18_Witness ==
    /\ last.op = "exec"
    /\ last.mode = "session"
    /\ last.ctx.session = 1
    /\ last.sid = 1
    /\ rt_session = 2

\* A context of a tempfile runtime, compiled after session(), evaluates
\* through the temp file.
TempfileContextIgnoresSession ==
    /\ last.op = "exec"
    /\ last.mode = "tempfile"
    /\ last.ctx.session # NoSession

\* A context compiled before session() evaluates through the pipe after it.
EarlyContextKeepsPipe ==
    /\ last.op = "exec"
    /\ last.mode = "pipe"
    /\ rt_session # NoSession

====
